---- MODULE Spec2Model ----
(***************************************************************************)
(* Dashboard Creator API: the upload -> profile -> suggestion -> validate  *)
(* pipeline (main.py, services/ai_analyzer.py, models/schemas.py) and the  *)
(* on-demand aggregation get_chart_data (services/data_processor.py).      *)
(*                                                                         *)
(* Text produced by str() and consumed by float() is a sequence of         *)
(* characters, so that stringification and numeric parsing are computed.   *)
(* Numbers produced by float() are fractions n / d * 10^e.                 *)
(***************************************************************************)
EXTENDS Integers, Sequences, FiniteSets, TLC

\* ---- bounds of the model ------------------------------------------------
MaxCols == 2
MaxRows == 3
MaxRaw == 2
MaxProfileCols == 3

\* ---- constants of the program -------------------------------------------
BarLineCap == 100
ScatterCap == 500
FallbackCap == 50
MaxSuggestions == 5

VARIABLES
    ANTHROPIC_AVAILABLE,  \* ai_analyzer.py: set once at import
    pydantic_strict,      \* the installed pydantic rejects (v2) or coerces (v1) a number given for a str field
    dataframes_cache,     \* main.py: the DataFrame stored for the uploaded file, or NoDf
    analysis,             \* the last analyze_dataframe call: its inputs and its result
    upload,               \* the last upload_file call: what it validated and answered
    chart                 \* the last get_chart_data call: its inputs and its result

vars == <<ANTHROPIC_AVAILABLE, pydantic_strict, dataframes_cache, analysis, upload, chart>>

\* ---- Python values -------------------------------------------------------
None == "<None>"

Truthy(s) == s # None /\ s # ""

Min(a, b) == IF a < b THEN a ELSE b

\* ---- text: str() and float() --------------------------------------------
Digits == <<"0", "1", "2", "3", "4", "5", "6", "7", "8", "9">>

\* The characters of the model's cells in code-point order.
Alphabet == <<" ", "-", ".", "0", "1", "2", "3", "4", "5", "6", "7", "8", "9", ":", "N", "S", "a", "n", "x">>

CharRank(c) == CHOOSE k \in 1..Len(Alphabet) : Alphabet[k] = c

IsDigit(c) == \E k \in 1..10 : Digits[k] = c

DigitValue(c) == (CHOOSE k \in 1..10 : Digits[k] = c) - 1

RECURSIVE IntToText(_)
\* str(n) of a non-negative int
IntToText(n) ==
    IF n < 10 THEN <<Digits[n + 1]>>
    ELSE Append(IntToText(n \div 10), Digits[(n % 10) + 1])

RECURSIVE TextToInt(_)
TextToInt(t) ==
    IF Len(t) = 0 THEN 0
    ELSE 10 * TextToInt(SubSeq(t, 1, Len(t) - 1)) + DigitValue(t[Len(t)])

\* Python's < on str: lexicographic by code point.
RECURSIVE TextLess(_, _)
TextLess(a, b) ==
    IF Len(b) = 0 THEN FALSE
    ELSE IF Len(a) = 0 THEN TRUE
    ELSE IF a[1] = b[1] THEN TextLess(Tail(a), Tail(b))
    ELSE CharRank(a[1]) < CharRank(b[1])

\* ---- numbers: float ------------------------------------------------------
RECURSIVE Gcd(_, _)
Gcd(a, b) == IF b = 0 THEN a ELSE Gcd(b, a % b)

\* A float is n / d * 10^e, n / d in lowest terms.
Num(n) == [n |-> n, d |-> 1, e |-> 0]

\* float('nan')
NaN == [n |-> 0, d |-> 0, e |-> 0]

\* a / b, b > 0, a >= 0
Frac(a, b) == LET g == Gcd(a, b) IN [n |-> a \div g, d |-> b \div g, e |-> 0]

\* float() of a numeral: a float keeps the leading digits of a long one
SignificantDigits == 9

ParseNumeral(t) ==
    IF Len(t) <= SignificantDigits THEN Num(TextToInt(t))
    ELSE [n |-> TextToInt(SubSeq(t, 1, SignificantDigits)), d |-> 1,
          e |-> Len(t) - SignificantDigits]

\* ---- cells ---------------------------------------------------------------
IntCell(k) == [t |-> "int", n |-> k, s |-> <<>>]
FloatCell(k) == [t |-> "float", n |-> k, s |-> <<>>]
StrCell(txt) == [t |-> "str", n |-> 0, s |-> txt]
TsCell(k) == [t |-> "ts", n |-> k, s |-> <<>>]
\* the missing value of a float64 column
NaNCell == [t |-> "nan", n |-> 0, s |-> <<>>]

\* pd.isna(cell)
isna(c) == c.t = "nan"

\* str(cell)
Str(c) ==
    CASE c.t = "int" -> IntToText(c.n)
      [] c.t = "float" -> IntToText(c.n) \o <<".", "0">>
      [] c.t = "str" -> c.s
      [] c.t = "nan" -> <<"n", "a", "n">>
      [] c.t = "ts" -> <<"2", "0", "2", "0", "-", "0", "1", "-", "0">> \o IntToText(c.n)
                       \o <<" ", "0", "0", ":", "0", "0", ":", "0", "0">>

\* float(cell): [ok, v, exc]
Float(c) ==
    CASE c.t \in {"int", "float"} -> [ok |-> TRUE, v |-> Num(c.n), exc |-> ""]
      [] c.t = "nan" -> [ok |-> TRUE, v |-> NaN, exc |-> ""]
      [] c.t = "str" ->
            IF Len(c.s) > 0 /\ \A k \in 1..Len(c.s) : IsDigit(c.s[k])
            THEN [ok |-> TRUE, v |-> ParseNumeral(c.s), exc |-> ""]
            ELSE [ok |-> FALSE, v |-> Num(0), exc |-> "ValueError: could not convert string to float"]
      [] c.t = "ts" ->
            [ok |-> FALSE, v |-> Num(0), exc |-> "TypeError: float() argument must be a string or a real number"]

\* The order pandas sorts group keys by (keys of one column share a type).
CellLess(a, b) ==
    IF a.t = "str" THEN TextLess(a.s, b.s) ELSE a.n < b.n

\* ---- the DataFrame -------------------------------------------------------
\* A column is a name, a dtype and its cells; the cells of row i (0-based)
\* are the column's pattern taken cyclically, so that a frame of several
\* hundred rows is a small value.
ColumnNames == <<"a", "b", "c", "d">>

Patterns ==
    [int64_1 |-> <<IntCell(10), IntCell(20), IntCell(30)>>,
     int64_2 |-> <<IntCell(2), IntCell(1), IntCell(2)>>,
     float64_1 |-> <<NaNCell, FloatCell(3), FloatCell(4)>>,
     object_1 |-> <<StrCell(<<"N">>), StrCell(<<"S">>), StrCell(<<"N">>)>>,
     object_2 |-> <<StrCell(<<"S">>), StrCell(<<"N">>), StrCell(<<"S">>)>>,
     object_3 |-> <<StrCell(<<"7">>), StrCell(<<"8">>), StrCell(<<"7">>)>>,
     object_5 |-> <<StrCell(<<"7">>), StrCell(<<"8">>), StrCell(<<"7">>)>>,
     datetime_1 |-> <<TsCell(2), TsCell(1), TsCell(2)>>]

\* the columns whose last row holds something else: numerals, then a word
LastCells == [object_5 |-> StrCell(<<"x">>)]

PatternDtype ==
    [int64_1 |-> "int64", int64_2 |-> "int64", float64_1 |-> "float64",
     object_1 |-> "object", object_2 |-> "object", object_3 |-> "object",
     object_5 |-> "object",
     datetime_1 |-> "datetime64[ns]"]

PatternIds == DOMAIN Patterns

RECURSIVE SeqsUpTo(_, _)
\* all sequences over S of length at most n
SeqsUpTo(S, n) ==
    IF n = 0 THEN {<<>>}
    ELSE LET shorter == SeqsUpTo(S, n - 1)
         IN shorter \cup {Append(q, e) : q \in {r \in shorter : Len(r) = n - 1}, e \in S}

Frame(pats, nrows) == [pats |-> pats, nrows |-> nrows]

len(df) == df.nrows

NCols(df) == Len(df.pats)

columns(df) == [j \in 1..NCols(df) |-> ColumnNames[j]]

HasColumn(df, col) == \E j \in 1..NCols(df) : ColumnNames[j] = col

ColIndex(df, col) == CHOOSE j \in 1..NCols(df) : ColumnNames[j] = col

dtype(df, col) == PatternDtype[df.pats[ColIndex(df, col)]]

IsNumberDtype(d) == d \in {"int64", "float64"}

\* df[col].iloc[i], i 0-based: the stored cell
Cell(df, i, col) ==
    LET id == df.pats[ColIndex(df, col)]
        p == Patterns[id]
    IN IF id \in DOMAIN LastCells /\ i = len(df) - 1
       THEN LastCells[id]
       ELSE p[(i % Len(p)) + 1]

\* df.iloc[i][col]: the row is one Series, so a frame whose columns are all
\* numeric and not all int64 hands back every cell as a float
iloc(df, i, col) ==
    LET c == Cell(df, i, col)
        dts == {PatternDtype[df.pats[j]] : j \in 1..NCols(df)}
    IN IF c.t = "int" /\ (\A d \in dts : IsNumberDtype(d)) /\ "float64" \in dts
       THEN FloatCell(c.n)
       ELSE c

\* df.select_dtypes(include=['number']).columns.tolist()
select_dtypes_number(df) ==
    SelectSeq(columns(df), LAMBDA col : IsNumberDtype(dtype(df, col)))

\* What read_csv / read_excel can hand to the pipeline: a frame without rows
\* has only object columns.
SmallPatterns == PatternIds \ DOMAIN LastCells

SmallDatasets ==
    {Frame(pats, n) : pats \in SeqsUpTo(SmallPatterns, MaxCols), n \in 1..MaxRows}
    \cup {Frame(pats, 0) : pats \in SeqsUpTo({"object_1"}, MaxCols)}

\* no frame stored (dataframes_cache is empty)
NoDf == Frame(<<>>, 0 - 1)

\* ---- pandas groupby ------------------------------------------------------
RowIndices(df) == [k \in 1..len(df) |-> k - 1]

\* the group keys in the order groupby iterates them: sorted (sort=True)
RECURSIVE SortedCells(_)
SortedCells(S) ==
    IF S = {} THEN <<>>
    ELSE LET m == CHOOSE c \in S : \A o \in S : ~CellLess(o, c)
         IN <<m>> \o SortedCells(S \ {m})

\* groupby(..., sort=False): the keys in the order their first rows appear
GroupKeys_Unsorted(df, group_by) ==
    LET firsts == {i \in 0..(len(df) - 1) :
                      /\ ~isna(Cell(df, i, group_by))
                      /\ \A j \in 0..(i - 1) : Cell(df, j, group_by) # Cell(df, i, group_by)}
    IN [k \in 1..Cardinality(firsts) |->
          Cell(df, CHOOSE i \in firsts : Cardinality({j \in firsts : j < i}) = k - 1, group_by)]

\* dropna=True: a missing value is no key
GroupKeys(df, group_by) ==
    SortedCells({c \in {Cell(df, i, group_by) : i \in 0..(len(df) - 1)} : ~isna(c)})

\* the rows of one group, in row order
GroupRows(df, group_by, key) ==
    SelectSeq(RowIndices(df), LAMBDA i : Cell(df, i, group_by) = key)

\* the rows of a group whose cell of the column is not missing
NotNa(df, rows, col) == SelectSeq(rows, LAMBDA i : ~isna(Cell(df, i, col)))

\* the sum of rows[lo..hi] of a numeric column, by halves; missing values
\* are skipped (skipna)
RECURSIVE SumRange(_, _, _, _, _)
SumRange(df, rows, col, lo, hi) ==
    IF lo > hi THEN 0
    ELSE IF lo = hi THEN (IF isna(Cell(df, rows[lo], col)) THEN 0 ELSE Cell(df, rows[lo], col).n)
    ELSE LET mid == (lo + hi) \div 2
         IN SumRange(df, rows, col, lo, mid) + SumRange(df, rows, col, mid + 1, hi)

SumCells(df, rows, col) == SumRange(df, rows, col, 1, Len(rows))

\* the sum of rows[lo..hi] of an object column: str + str, in row order
RECURSIVE ConcatRange(_, _, _, _, _)
ConcatRange(df, rows, col, lo, hi) ==
    IF lo > hi THEN <<>>
    ELSE IF lo = hi THEN Cell(df, rows[lo], col).s
    ELSE LET mid == (lo + hi) \div 2
         IN ConcatRange(df, rows, col, lo, mid) \o ConcatRange(df, rows, col, mid + 1, hi)

ConcatCells(df, rows, col) == ConcatRange(df, rows, col, 1, Len(rows))

\* a reduced value: a number, or (the sum of an object column) a str
NumVal(v) == [t |-> "num", v |-> v, s |-> <<>>]
StrVal(txt) == [t |-> "str", v |-> Num(0), s |-> txt]

\* float(val) of a reduced value
FloatVal(val) ==
    IF val.t = "num" THEN [ok |-> TRUE, v |-> val.v, exc |-> ""]
    ELSE Float(StrCell(val.s))

\* grouped.sum() / grouped.mean() / grouped.count() of one group
Reduce(df, rows, col, how) ==
    LET dt == dtype(df, col) IN
    CASE how = "count" -> NumVal(Num(Len(NotNa(df, rows, col))))
      [] how = "sum" /\ IsNumberDtype(dt) -> NumVal(Num(SumCells(df, rows, col)))
      [] how = "sum" /\ dt = "object" -> StrVal(ConcatCells(df, rows, col))
      [] how = "mean" /\ IsNumberDtype(dt) ->
            IF Len(NotNa(df, rows, col)) = 0 THEN NumVal(NaN)
            ELSE NumVal(Frac(SumCells(df, rows, col), Len(NotNa(df, rows, col))))

\* whether the reduction itself raises: sum of datetimes, mean of anything
\* that is not a number. On a frame without rows the mean of an object
\* column raises or not with the pandas version (empty_mean_raises).
ReduceRaises(df, col, how, empty_mean_raises) ==
    LET dt == dtype(df, col) IN
    \/ how = "sum" /\ dt = "datetime64[ns]"
    \/ how = "mean" /\ ~IsNumberDtype(dt) /\ (len(df) > 0 \/ empty_mean_raises)

\* df.groupby(group_by)[target].<how>(): [exc, items], items in key order
Aggregated(df, group_by, target, how, empty_mean_raises) ==
    IF ~HasColumn(df, group_by)
    THEN [exc |-> "KeyError: group_by", items |-> <<>>]
    ELSE IF ~HasColumn(df, target)
    THEN [exc |-> "KeyError: Column not found", items |-> <<>>]
    ELSE IF ReduceRaises(df, target, how, empty_mean_raises)
    THEN [exc |-> "TypeError: agg function failed", items |-> <<>>]
    ELSE LET keys == GroupKeys(df, group_by)
         IN [exc |-> "",
             items |-> [k \in 1..Len(keys) |->
                          [name |-> keys[k],
                           val |-> Reduce(df, GroupRows(df, group_by, keys[k]), target, how)]]]

\* ---- get_chart_data ------------------------------------------------------
NoLabels == [some |-> FALSE, list |-> <<>>]
Labels(l) == [some |-> TRUE, list |-> l]

Running(data, labels) == [exc |-> "", data |-> data, labels |-> labels]
Raised(exc, labels) == [exc |-> exc, data |-> <<>>, labels |-> labels]

\* lines 93-97 and 119-123: the points and labels of an aggregated series
SeriesPoints(agg) ==
    IF agg.exc # "" THEN Raised(agg.exc, NoLabels)
    ELSE IF \E k \in 1..Len(agg.items) : ~FloatVal(agg.items[k].val).ok
    THEN LET k == CHOOSE j \in 1..Len(agg.items) :
                      /\ ~FloatVal(agg.items[j].val).ok
                      /\ \A h \in 1..(j - 1) : FloatVal(agg.items[h].val).ok
         IN Raised(FloatVal(agg.items[k].val).exc, NoLabels)
    ELSE Running([k \in 1..Len(agg.items) |->
                     [name |-> Str(agg.items[k].name),
                      value |-> FloatVal(agg.items[k].val).v]],
                 Labels([k \in 1..Len(agg.items) |-> Str(agg.items[k].name)]))

\* lines 84-91
BarHow(aggregate) ==
    IF aggregate = "sum" THEN "sum"
    ELSE IF aggregate = "mean" THEN "mean"
    ELSE IF aggregate = "count" THEN "count"
    ELSE "sum"

\* lines 110-115
PieHow(aggregate) ==
    IF aggregate = "sum" THEN "sum"
    ELSE IF aggregate = "mean" THEN "mean"
    ELSE "sum"

\* what evaluating df.iloc[i][col] and then float() of it raises, "" if nothing
FloatAtExc(df, i, col) ==
    IF ~HasColumn(df, col) THEN "KeyError: column"
    ELSE Float(iloc(df, i, col)).exc

\* what evaluating str(df.iloc[i][col]) raises, "" if nothing
StrAtExc(df, i, col) == IF ~HasColumn(df, col) THEN "KeyError: column" ELSE ""

\* line 101: what building the point of row i raises, left to right
RowPointExc(df, i, x_axis, y_axis) ==
    IF StrAtExc(df, i, x_axis) # "" THEN StrAtExc(df, i, x_axis)
    ELSE FloatAtExc(df, i, y_axis)

\* line 128
ScatterPointExc(df, i, x_axis, y_axis) ==
    IF FloatAtExc(df, i, x_axis) # "" THEN FloatAtExc(df, i, x_axis)
    ELSE FloatAtExc(df, i, y_axis)

\* one point per row, every row
RowPoints_NoCap(df, x_axis, y_axis) ==
    LET n == len(df)
        bad == {i \in 0..(n - 1) : RowPointExc(df, i, x_axis, y_axis) # ""}
    IN IF bad # {}
       THEN Raised(RowPointExc(df, CHOOSE i \in bad : \A j \in bad : i <= j, x_axis, y_axis),
                   NoLabels)
       ELSE Running([k \in 1..n |->
                        [name |-> Str(iloc(df, k - 1, x_axis)),
                         value |-> Float(iloc(df, k - 1, y_axis)).v]],
                    Labels([k \in 1..n |-> Str(iloc(df, k - 1, x_axis))]))

\* a loop that leaves out the rows it cannot convert
RowPoints_SkipBadRows(df, x_axis, y_axis) ==
    LET n == Min(len(df), BarLineCap)
        good == SelectSeq([k \in 1..n |-> k - 1],
                          LAMBDA i : RowPointExc(df, i, x_axis, y_axis) = "")
    IN Running([k \in 1..Len(good) |->
                   [name |-> Str(iloc(df, good[k], x_axis)),
                    value |-> Float(iloc(df, good[k], y_axis)).v]],
               Labels([k \in 1..Len(good) |-> Str(iloc(df, good[k], x_axis))]))

\* lines 100-104: one point per row, the first 100 rows
RowPoints(df, x_axis, y_axis) ==
    LET n == Min(len(df), BarLineCap)
        bad == {i \in 0..(n - 1) : RowPointExc(df, i, x_axis, y_axis) # ""}
    IN IF bad # {}
       THEN Raised(RowPointExc(df, CHOOSE i \in bad : \A j \in bad : i <= j, x_axis, y_axis),
                   NoLabels)
       ELSE Running([k \in 1..n |->
                        [name |-> Str(iloc(df, k - 1, x_axis)),
                         value |-> Float(iloc(df, k - 1, y_axis)).v]],
                    Labels([k \in 1..n |-> Str(iloc(df, k - 1, x_axis))]))

\* a scatter that sets labels as bar and line do
ScatterPoints_Labelled(df, x_axis, y_axis) ==
    LET n == Min(len(df), ScatterCap)
        bad == {i \in 0..(n - 1) : ScatterPointExc(df, i, x_axis, y_axis) # ""}
    IN IF bad # {}
       THEN Raised(ScatterPointExc(df, CHOOSE i \in bad : \A j \in bad : i <= j, x_axis, y_axis),
                   NoLabels)
       ELSE Running([k \in 1..n |->
                        [x |-> Float(iloc(df, k - 1, x_axis)).v,
                         y |-> Float(iloc(df, k - 1, y_axis)).v]],
                    Labels([k \in 1..n |-> Str(iloc(df, k - 1, x_axis))]))

\* lines 127-130: one {x, y} per row, the first 500 rows, labels left unset
ScatterPoints(df, x_axis, y_axis) ==
    LET n == Min(len(df), ScatterCap)
        bad == {i \in 0..(n - 1) : ScatterPointExc(df, i, x_axis, y_axis) # ""}
    IN IF bad # {}
       THEN Raised(ScatterPointExc(df, CHOOSE i \in bad : \A j \in bad : i <= j, x_axis, y_axis),
                   NoLabels)
       ELSE Running([k \in 1..n |->
                        [x |-> Float(iloc(df, k - 1, x_axis)).v,
                         y |-> Float(iloc(df, k - 1, y_axis)).v]],
                    NoLabels)

\* line 117: no group_by, the pie groups by category and sums
PieByCategory_Mean(df, category, value, empty_mean_raises) ==
    SeriesPoints(Aggregated(df, category, value, "mean", empty_mean_raises))

PieByCategory(df, category, value, empty_mean_raises) ==
    SeriesPoints(Aggregated(df, category, value, "sum", empty_mean_raises))

\* lines 79-130: the dispatch on chart_type
Dispatch(df, chart_type, p, aggregate, empty_mean_raises) ==
    IF chart_type = "bar" \/ chart_type = "line"
    THEN IF Truthy(p.x_axis) /\ Truthy(p.y_axis)
         THEN IF Truthy(p.group_by)
              THEN SeriesPoints(Aggregated(df, p.group_by, p.y_axis, BarHow(aggregate),
                                           empty_mean_raises))
              ELSE RowPoints(df, p.x_axis, p.y_axis)
         ELSE Running(<<>>, NoLabels)
    ELSE IF chart_type = "pie"
    THEN IF Truthy(p.category) /\ Truthy(p.value)
         THEN IF Truthy(p.group_by)
              THEN SeriesPoints(Aggregated(df, p.group_by, p.value, PieHow(aggregate),
                                           empty_mean_raises))
              ELSE PieByCategory(df, p.category, p.value, empty_mean_raises)
         ELSE Running(<<>>, NoLabels)
    ELSE IF chart_type = "scatter"
    THEN IF Truthy(p.x_axis) /\ Truthy(p.y_axis)
         THEN ScatterPoints(df, p.x_axis, p.y_axis)
         ELSE Running(<<>>, NoLabels)
    ELSE Running(<<>>, NoLabels)

\* a fallback that is content with one numeric column
Fallback_OneNumericColumn(df, r) ==
    IF r.exc = "" /\ Len(r.data) = 0 /\ len(df) > 0
    THEN LET numeric_cols == select_dtypes_number(df)
             n == Min(len(df), FallbackCap)
         IN IF Len(numeric_cols) >= 1
            THEN Running([k \in 1..n |->
                             [name |-> IntToText(k - 1),
                              value |-> Float(iloc(df, k - 1, numeric_cols[1])).v]],
                         Labels([k \in 1..n |-> IntToText(k - 1)]))
            ELSE r
    ELSE r

\* lines 133-140: the first numeric column by row position, when nothing was produced
Fallback(df, r) ==
    IF r.exc = "" /\ Len(r.data) = 0 /\ len(df) > 0
    THEN LET numeric_cols == select_dtypes_number(df)
             n == Min(len(df), FallbackCap)
         IN IF Len(numeric_cols) >= 2
            THEN Running([k \in 1..n |->
                             [name |-> IntToText(k - 1),
                              value |-> Float(iloc(df, k - 1, numeric_cols[1])).v]],
                         Labels([k \in 1..n |-> IntToText(k - 1)]))
            ELSE r
    ELSE r

\* an except clause that names KeyError only: anything else leaves the function
Except_KeyErrorOnly(r) ==
    IF r.exc # "" /\ r.exc \in {"KeyError: column", "KeyError: group_by", "KeyError: Column not found"}
    THEN [data |-> <<>>, labels |-> r.labels, has_error |-> TRUE, error |-> r.exc, raised |-> FALSE]
    ELSE [data |-> r.data, labels |-> r.labels, has_error |-> FALSE, error |-> "",
          raised |-> r.exc # ""]

\* lines 142-145: what the except clause makes of the try block's outcome
Except(r) ==
    IF r.exc # ""
    THEN [data |-> <<>>, labels |-> r.labels, has_error |-> TRUE, error |-> r.exc, raised |-> FALSE]
    ELSE [data |-> r.data, labels |-> r.labels, has_error |-> FALSE, error |-> "", raised |-> FALSE]

\* parameters.get('aggregate', 'sum')
GetAggregate(p) == IF p.aggregate = None THEN "sum" ELSE p.aggregate

get_chart_data(df, chart_type, p, empty_mean_raises) ==
    Except(Fallback(df, Dispatch(df, chart_type, p, GetAggregate(p), empty_mean_raises)))

\* ---- process_file: the metadata of a frame --------------------------------
\* df.empty: no rows or no columns
empty(df) == len(df) = 0 \/ NCols(df) = 0

IsDatetimeDtype(d) == d = "datetime64[ns]"

\* the statistics describe() computes for a column: count, mean, std, min,
\* quartiles, max of numbers; count, mean, min, quartiles, max (or top, first,
\* last) of timestamps, which are Timestamp values; count, unique, top, freq
\* of anything else
StatsOf(d) ==
    IF IsNumberDtype(d) THEN "number"
    ELSE IF IsDatetimeDtype(d) THEN "timestamp"
    ELSE "categorical"

\* df.describe() with no arguments: the number columns (and, where the pandas
\* installed counts datetimes as numeric, the datetime columns); every column
\* when there is none of these
describe(df, datetime_is_numeric) ==
    LET byDefault(col) ==
            \/ IsNumberDtype(dtype(df, col))
            \/ datetime_is_numeric /\ IsDatetimeDtype(dtype(df, col))
        chosen == SelectSeq(columns(df), byDefault)
        cols == IF Len(chosen) = 0 THEN columns(df) ELSE chosen
    IN [k \in 1..Len(cols) |->
          [col |-> cols[k], stats |-> StatsOf(dtype(df, cols[k])),
           count |-> Len(NotNa(df, RowIndices(df), cols[k]))]]

\* line 32
summary_stats(df, datetime_is_numeric) ==
    IF ~empty(df) THEN describe(df, datetime_is_numeric) ELSE <<>>

\* lines 28-32: columns, dtypes (a dict in column order), shape, summary_stats
Metadata(df, datetime_is_numeric) ==
    [columns |-> columns(df),
     dtypes |-> [j \in 1..NCols(df) |-> [col |-> ColumnNames[j], dtype |-> dtype(df, ColumnNames[j])]],
     shape |-> <<len(df), NCols(df)>>,
     summary_stats |-> summary_stats(df, datetime_is_numeric)]

\* main.py lines 161-165
Schema(metadata) ==
    [columns |-> metadata.columns, dtypes |-> metadata.dtypes, shape |-> metadata.shape]

\* main.py lines 166-169
Summary(metadata) == [summary_stats |-> metadata.summary_stats]

\* ---- loosely structured values (dicts, JSON) ------------------------------
JAbsent == [j |-> "absent", s |-> ""]
JNull == [j |-> "null", s |-> ""]
JStr(txt) == [j |-> "str", s |-> txt]
\* a number; s is what str() makes of it
JNum(txt) == [j |-> "num", s |-> txt]
JList == [j |-> "list", s |-> ""]

\* a parameters value: a dict (j = "obj") with its keys, or something else
RawParams(x, y, c, v, g, a, extra) ==
    [j |-> "obj", x_axis |-> x, y_axis |-> y, category |-> c, value |-> v, group_by |-> g,
     aggregate |-> a, extra |-> extra]

RawNoParams(j) ==
    [j |-> j, x_axis |-> JAbsent, y_axis |-> JAbsent, category |-> JAbsent, value |-> JAbsent,
     group_by |-> JAbsent, aggregate |-> JAbsent, extra |-> FALSE]

\* a suggestion before validation: a dict (j = "obj") with its keys, or something else
RawSuggestion(title, chart_type, parameters, insight) ==
    [j |-> "obj", title |-> title, chart_type |-> chart_type, parameters |-> parameters,
     insight |-> insight]

RawNotDict(j) ==
    [j |-> j, title |-> JAbsent, chart_type |-> JAbsent, parameters |-> RawNoParams("absent"),
     insight |-> JAbsent]

\* ---- analyze_dataframe_mock -----------------------------------------------
\* 'int' in dtype or 'float' in dtype, over the dtype names pandas gives
IsIntOrFloatName(d) == d \in {"int64", "float64"}

\* 'object' in dtype or 'category' in dtype
IsObjectOrCategoryName(d) == d \in {"object", "category"}

ColsOf(items) == [k \in 1..Len(items) |-> items[k].col]

numeric_cols(schema) == ColsOf(SelectSeq(schema.dtypes, LAMBDA it : IsIntOrFloatName(it.dtype)))

categorical_cols(schema) ==
    ColsOf(SelectSeq(schema.dtypes, LAMBDA it : IsObjectOrCategoryName(it.dtype)))

\* lines 41-54
Suggestion1(cat, num) ==
    IF Len(cat) > 0 /\ Len(num) > 0
    THEN <<RawSuggestion(JStr("Distribución de " \o num[1] \o " por " \o cat[1]), JStr("bar"),
              RawParams(JStr(cat[1]), JStr(num[1]), JAbsent, JAbsent, JStr(cat[1]), JStr("sum"), FALSE),
              JStr("Este gráfico muestra cómo se distribuye " \o num[1]
                   \o " entre las diferentes categorías de " \o cat[1]))>>
    ELSE <<>>

\* lines 57-66
Suggestion2(cat, num) ==
    IF Len(num) >= 2
    THEN <<RawSuggestion(JStr("Tendencia de " \o num[1] \o " vs " \o num[2]), JStr("line"),
              RawParams(JStr(num[1]), JStr(num[2]), JAbsent, JAbsent, JAbsent, JAbsent, FALSE),
              JStr("Visualiza la relación y tendencia entre " \o num[1] \o " y " \o num[2]))>>
    ELSE <<>>

\* lines 69-82
Suggestion3(cat, num) ==
    IF Len(cat) > 0 /\ Len(num) > 0
    THEN <<RawSuggestion(JStr("Proporción de " \o num[1] \o " por " \o cat[1]), JStr("pie"),
              RawParams(JAbsent, JAbsent, JStr(cat[1]), JStr(num[1]), JStr(cat[1]), JStr("sum"), FALSE),
              JStr("Este gráfico circular muestra la proporción relativa de " \o num[1]
                   \o " para cada categoría de " \o cat[1]))>>
    ELSE <<>>

\* lines 85-94
Suggestion4(cat, num) ==
    IF Len(num) >= 2
    THEN <<RawSuggestion(JStr("Relación entre " \o num[1] \o " y " \o num[2]), JStr("scatter"),
              RawParams(JStr(num[1]), JStr(num[2]), JAbsent, JAbsent, JAbsent, JAbsent, FALSE),
              JStr("Un gráfico de dispersión que revela la relación entre " \o num[1]
                   \o " y " \o num[2]))>>
    ELSE <<>>

\* lines 97-107
Suggestion5(cat, num) ==
    IF Len(num) > 0
    THEN <<RawSuggestion(JStr("Distribución de " \o num[1]), JStr("bar"),
              RawParams(JStr("index"), JStr(num[1]), JAbsent, JAbsent, JAbsent, JAbsent, FALSE),
              JStr("Visualiza la distribución de valores de " \o num[1] \o " en el dataset"))>>
    ELSE <<>>

\* lines 112-124
Frequency(cat) ==
    IF Len(cat) >= 1
    THEN <<RawSuggestion(JStr("Frecuencia de " \o cat[1]), JStr("bar"),
              RawParams(JStr(cat[1]), JStr("count"), JAbsent, JAbsent, JStr(cat[1]), JStr("count"), FALSE),
              JStr("Este gráfico muestra la frecuencia de cada valor único en " \o cat[1]))>>
    ELSE <<>>

\* lines 127-141
CrossCount(cat) ==
    IF Len(cat) >= 2
    THEN <<RawSuggestion(JStr("Distribución de " \o cat[1] \o " por " \o cat[2]), JStr("bar"),
              RawParams(JStr(cat[1]), JStr("count"), JStr(cat[2]), JAbsent, JStr(cat[1]),
                        JStr("count"), FALSE),
              JStr("Este gráfico muestra cómo se distribuyen los valores de " \o cat[1]
                   \o " en relación con " \o cat[2]))>>
    ELSE <<>>

\* lines 144-156
FrequencyPie(cat) ==
    IF Len(cat) >= 1
    THEN <<RawSuggestion(JStr("Proporción de " \o cat[1]), JStr("pie"),
              RawParams(JAbsent, JAbsent, JStr(cat[1]), JStr("count"), JStr(cat[1]), JStr("count"), FALSE),
              JStr("Este gráfico circular muestra la proporción relativa de cada valor en " \o cat[1]))>>
    ELSE <<>>

\* the categorical-only suggestions without the test that no column is numeric
Suggestion6_Unguarded(cat, num) ==
    IF Len(cat) > 0
    THEN Frequency(cat) \o CrossCount(cat) \o FrequencyPie(cat)
    ELSE <<>>

\* lines 110-156
Suggestion6(cat, num) ==
    IF Len(cat) > 0 /\ Len(num) = 0
    THEN Frequency(cat) \o CrossCount(cat) \o FrequencyPie(cat)
    ELSE <<>>

\* suggestions[:5]
FirstN(q, n) == SubSeq(q, 1, Min(Len(q), n))

analyze_dataframe_mock(schema) ==
    LET num == numeric_cols(schema)
        cat == categorical_cols(schema)
    IN FirstN(Suggestion1(cat, num) \o Suggestion2(cat, num) \o Suggestion3(cat, num)
              \o Suggestion4(cat, num) \o Suggestion5(cat, num) \o Suggestion6(cat, num),
              MaxSuggestions)

\* ---- analyze_dataframe_claude ---------------------------------------------
\* The text of a reply is a sequence of tokens: a code fence, the word json,
\* whitespace, one JSON value, or prose. A code fence is three backquotes.
Fence == [k |-> "fence", v |-> <<>>, j |-> "none"]
JsonWord == [k |-> "json", v |-> <<>>, j |-> "none"]
Space == [k |-> "ws", v |-> <<>>, j |-> "none"]
Prose == [k |-> "prose", v |-> <<>>, j |-> "none"]
\* a JSON array of the given entries
ListValue(items) == [k |-> "value", v |-> items, j |-> "list"]
\* a JSON value that is no array: "obj", "str", "num", "null"
OtherValue(j) == [k |-> "value", v |-> <<>>, j |-> j]

RECURSIVE lstrip(_)
lstrip(t) == IF Len(t) > 0 /\ t[1].k = "ws" THEN lstrip(Tail(t)) ELSE t

RECURSIVE rstrip(_)
rstrip(t) == IF Len(t) > 0 /\ t[Len(t)].k = "ws" THEN rstrip(SubSeq(t, 1, Len(t) - 1)) ELSE t

strip(t) == rstrip(lstrip(t))

\* content.startswith(<fence>json), line 249
StartsWithJsonFence(t) == Len(t) >= 2 /\ t[1] = Fence /\ t[2] = JsonWord

\* content.startswith(<fence>), line 251
StartsWithFence(t) == Len(t) >= 1 /\ t[1] = Fence

\* content.endswith(<fence>), line 253
EndsWithFence(t) == Len(t) >= 1 /\ t[Len(t)] = Fence

\* lines 247-255
StripFences(text) ==
    LET c0 == strip(text)
        c1 == IF StartsWithJsonFence(c0) THEN SubSeq(c0, 3, Len(c0)) ELSE c0
        c2 == IF StartsWithFence(c1) THEN Tail(c1) ELSE c1
        c3 == IF EndsWithFence(c2) THEN SubSeq(c2, 1, Len(c2) - 1) ELSE c2
    IN strip(c3)

\* json.loads(content): one JSON value, whitespace around it allowed
json_loads(content) ==
    LET c == strip(content)
    IN IF Len(c) = 1 /\ c[1].k = "value"
       THEN [ok |-> TRUE, v |-> c[1]]
       ELSE [ok |-> FALSE, v |-> OtherValue("null")]

NotConstructed == "not constructed"

NotCalled == [outcome |-> "not called", text |-> <<>>]

\* a reply that is no list handed to the mock, like a reply that does not parse
CallClaude_MockOnNonList(schema, remote) ==
    IF remote.outcome # "text"
    THEN analyze_dataframe_mock(schema)
    ELSE LET suggestions == json_loads(StripFences(remote.text))
         IN IF ~suggestions.ok THEN analyze_dataframe_mock(schema)
            ELSE IF suggestions.v.j = "list" THEN suggestions.v.v
            ELSE analyze_dataframe_mock(schema)

\* an except clause that answers with no suggestions instead of the mock's
CallClaude_EmptyOnError(schema, remote) ==
    IF remote.outcome # "text"
    THEN <<>>
    ELSE LET suggestions == json_loads(StripFences(remote.text))
         IN IF ~suggestions.ok THEN <<>>
            ELSE IF suggestions.v.j = "list" THEN suggestions.v.v
            ELSE <<>>

\* lines 236-263: the call, the parse, the except clause
CallClaude(schema, remote) ==
    IF remote.outcome # "text"
    THEN analyze_dataframe_mock(schema)
    ELSE LET suggestions == json_loads(StripFences(remote.text))
         IN IF ~suggestions.ok THEN analyze_dataframe_mock(schema)
            ELSE IF suggestions.v.j = "list" THEN suggestions.v.v
            ELSE <<>>

\* lines 173-193, then the call
analyze_dataframe_claude(schema, available, api_key, ctor, remote) ==
    IF ~available THEN analyze_dataframe_mock(schema)
    ELSE IF ~Truthy(api_key) THEN analyze_dataframe_mock(schema)
    ELSE IF ctor # "ok" THEN analyze_dataframe_mock(schema)
    ELSE CallClaude(schema, remote)

\* line 201: json.dumps of the summary statistics, which has no encoding for
\* a Timestamp; the prompt is built outside every try
PromptRaises(summary) ==
    \E k \in 1..Len(summary.summary_stats) : summary.summary_stats[k].stats = "timestamp"

\* the call ends in the TypeError of the prompt: a client was constructed
analyze_dataframe_raises(summary, use_claude, available, api_key, ctor) ==
    use_claude /\ available /\ Truthy(api_key) /\ ctor = "ok" /\ PromptRaises(summary)

\* lines 278-281
analyze_dataframe(schema, use_claude, available, api_key, ctor, remote) ==
    IF use_claude
    THEN analyze_dataframe_claude(schema, available, api_key, ctor, remote)
    ELSE analyze_dataframe_mock(schema)

\* ---- the suggestion validator (upload_file, lines 176-196) ----------------
Dropped == [ok |-> FALSE, s |-> ""]

\* pydantic on a field declared str
StrField(fv, strict) ==
    CASE fv.j = "str" -> [ok |-> TRUE, s |-> fv.s]
      [] fv.j = "num" -> IF strict THEN Dropped ELSE [ok |-> TRUE, s |-> fv.s]
      [] OTHER -> Dropped

\* pydantic on a field declared Optional[str] = None
OptionalStrField(fv, strict) ==
    CASE fv.j \in {"absent", "null"} -> [ok |-> TRUE, s |-> None]
      [] OTHER -> StrField(fv, strict)

ParamKeys == {"x_axis", "y_axis", "category", "value", "group_by", "aggregate"}

\* ChartParameters(**parameters): unknown keys are ignored
ChartParameters(rp, strict) ==
    [ok |-> \A key \in ParamKeys : OptionalStrField(rp[key], strict).ok,
     v |-> [key \in ParamKeys |-> OptionalStrField(rp[key], strict).s]]

\* lines 180-187: the defaults of the keys a dict lacks
WithDefaults(e) ==
    [e EXCEPT
       !.title = IF e.title.j = "absent" THEN JStr("Gráfico sin título") ELSE e.title,
       !.chart_type = IF e.chart_type.j = "absent" THEN JStr("bar") ELSE e.chart_type,
       !.parameters = IF e.parameters.j = "absent"
                      THEN RawParams(JAbsent, JAbsent, JAbsent, JAbsent, JAbsent, JAbsent, FALSE)
                      ELSE e.parameters,
       !.insight = IF e.insight.j = "absent" THEN JStr("Análisis de datos") ELSE e.insight]

NoSuggestion ==
    [title |-> "", chart_type |-> "", parameters |-> [key \in ParamKeys |-> None], insight |-> ""]

\* the body of the try of one entry: [ok, v]; ok is false when it raises
ValidateOne(entry, strict) ==
    IF entry.j # "obj" THEN [ok |-> FALSE, v |-> NoSuggestion]
    ELSE LET e == WithDefaults(entry)
             params == ChartParameters(e.parameters, strict)
         IN IF /\ e.parameters.j = "obj"
               /\ params.ok
               /\ StrField(e.title, strict).ok
               /\ StrField(e.chart_type, strict).ok
               /\ StrField(e.insight, strict).ok
            THEN [ok |-> TRUE,
                  v |-> [title |-> StrField(e.title, strict).s,
                         chart_type |-> StrField(e.chart_type, strict).s,
                         parameters |-> params.v,
                         insight |-> StrField(e.insight, strict).s]]
            ELSE [ok |-> FALSE, v |-> NoSuggestion]

\* a try around the whole loop: the first entry that raises ends the request
RECURSIVE Validate_AbortOnFirst(_, _)
Validate_AbortOnFirst(ai_suggestions, strict) ==
    IF Len(ai_suggestions) = 0 THEN [raised |-> FALSE, suggestions |-> <<>>]
    ELSE LET one == ValidateOne(ai_suggestions[1], strict)
             rest == Validate_AbortOnFirst(Tail(ai_suggestions), strict)
         IN IF one.ok THEN [raised |-> rest.raised, suggestions |-> <<one.v>> \o rest.suggestions]
            ELSE [raised |-> TRUE, suggestions |-> <<>>]

\* lines 176-196: the loop; an entry that raises is skipped
RECURSIVE Validate(_, _)
Validate(ai_suggestions, strict) ==
    IF Len(ai_suggestions) = 0 THEN [raised |-> FALSE, suggestions |-> <<>>]
    ELSE LET one == ValidateOne(ai_suggestions[1], strict)
             rest == Validate(Tail(ai_suggestions), strict)
         IN [raised |-> rest.raised,
             suggestions |-> (IF one.ok THEN <<one.v>> ELSE <<>>) \o rest.suggestions]

\* ---- what the generative service may answer --------------------------------
GoodParams == RawParams(JStr("a"), JStr("b"), JAbsent, JAbsent, JNull, JStr("sum"), FALSE)

RawEntries ==
    {RawSuggestion(JStr("Ventas"), JStr("bar"), GoodParams, JStr("insight")),
     RawSuggestion(JStr("Mapa"), JStr("heatmap"), GoodParams, JStr("insight")),
     RawSuggestion(JAbsent, JAbsent, RawNoParams("absent"), JAbsent),
     RawSuggestion(JStr("Texto"), JStr("line"), RawNoParams("str"), JStr("insight")),
     RawSuggestion(JNull, JStr("pie"), GoodParams, JStr("insight")),
     RawSuggestion(JNum("2024"), JStr("scatter"), GoodParams, JStr("insight")),
     RawSuggestion(JStr("Extra"), JStr("pie"),
                   RawParams(JNum("1"), JAbsent, JStr("a"), JList, JAbsent, JAbsent, TRUE),
                   JStr("insight")),
     RawNotDict("num"),
     RawNotDict("str")}

Payloads ==
    {ListValue(q) : q \in SeqsUpTo(RawEntries, MaxRaw)}
    \cup {OtherValue(j) : j \in {"obj", "str", "num", "null"}}

FewPayloads ==
    {ListValue(<<>>), ListValue(<<RawNotDict("num")>>), OtherValue("obj"), OtherValue("str")}

\* the replies wrapped in every way: no list, and a list of at most one entry
ShortPayloads ==
    {ListValue(q) : q \in SeqsUpTo(RawEntries, 1)}
    \cup {OtherValue(j) : j \in {"obj", "str", "num", "null"}}

Bare(v) == <<v>>
JsonFenced(v) == <<Fence, JsonWord, Space, v, Space, Fence>>
PlainFenced(v) == <<Space, Fence, Space, v, Space, Fence, Space>>
Unclosed(v) == <<Fence, JsonWord, Space, v>>
TwoFences(v) == <<Fence, JsonWord, Fence, Space, v, Fence>>
Prefaced(v) == <<Prose, Space, Fence, JsonWord, Space, v, Space, Fence>>
TwoValues(v) == <<v, Space, v>>
FencedTwice(v) == <<Fence, Fence, v, Fence, Fence>>

Contents ==
    {Bare(v) : v \in Payloads} \cup {JsonFenced(v) : v \in ShortPayloads}
    \cup {PlainFenced(v) : v \in FewPayloads} \cup {Unclosed(v) : v \in FewPayloads}
    \cup {TwoFences(v) : v \in FewPayloads} \cup {Prefaced(v) : v \in FewPayloads}
    \cup {TwoValues(v) : v \in FewPayloads} \cup {FencedTwice(v) : v \in FewPayloads}
    \cup {<<>>, <<Prose>>, <<Fence>>, <<Fence, JsonWord>>}

RemoteOutcomes ==
    {[outcome |-> "error", text |-> <<>>], [outcome |-> "no content", text |-> <<>>]}
    \cup {[outcome |-> "text", text |-> t] : t \in Contents}

ApiKeys == {None, "", "sk-ant"}

\* the outcomes of the steps a call gets to
CtorOutcomes(use_claude, available, api_key) ==
    IF use_claude /\ available /\ Truthy(api_key)
    THEN {"ok", "TypeError", "Exception"}
    ELSE {NotConstructed}

RemoteOutcomesOf(ctor, summary) ==
    IF ctor = "ok" /\ ~PromptRaises(summary) THEN RemoteOutcomes ELSE {NotCalled}

\* the frames whose profiles the suggestion engine sees: one column pattern
\* per dtype, with a row or without
ProfilePatterns == {"int64_1", "float64_1", "object_1", "datetime_1"}

UploadDatasets ==
    {Frame(pats, 1) : pats \in SeqsUpTo(ProfilePatterns, MaxProfileCols)}
    \cup {Frame(pats, 0) : pats \in SeqsUpTo({"object_1"}, MaxProfileCols)}

\* the files uploaded to the service
ServiceDatasets ==
    {Frame(pats, 1) : pats \in SeqsUpTo(ProfilePatterns, MaxCols)}
    \cup {Frame(pats, 0) : pats \in SeqsUpTo({"object_1"}, MaxCols)}

Analysis(metadata, use_claude, api_key, ctor, remote) ==
    LET raised == analyze_dataframe_raises(Summary(metadata), use_claude, ANTHROPIC_AVAILABLE,
                                           api_key, ctor)
    IN [called |-> TRUE, use_claude |-> use_claude, api_key |-> api_key, ctor |-> ctor,
        remote |-> remote, schema |-> Schema(metadata), summary |-> Summary(metadata),
        raised |-> raised,
        result |-> IF raised THEN <<>>
                   ELSE analyze_dataframe(Schema(metadata), use_claude, ANTHROPIC_AVAILABLE,
                                          api_key, ctor, remote)]

\* analyze_dataframe(schema, summary, use_claude) on the stored frame's metadata
AnalyzeDataframe ==
    /\ dataframes_cache # NoDf
    /\ ~analysis.called
    /\ \E use_claude \in BOOLEAN, api_key \in ApiKeys, datetime_is_numeric \in BOOLEAN :
         LET metadata == Metadata(dataframes_cache, datetime_is_numeric)
         IN \E ctor \in CtorOutcomes(use_claude, ANTHROPIC_AVAILABLE, api_key) :
              \E remote \in RemoteOutcomesOf(ctor, Summary(metadata)) :
                 analysis' = Analysis(metadata, use_claude, api_key, ctor, remote)
    /\ UNCHANGED <<ANTHROPIC_AVAILABLE, pydantic_strict, dataframes_cache, upload, chart>>

\* upload_file: process_file, the cache, analyze_dataframe, the validator;
\* whatever is raised after the file is read is answered with status 500
UploadFile ==
    /\ ~upload.called
    /\ \E df \in ServiceDatasets, api_key \in ApiKeys, datetime_is_numeric \in BOOLEAN :
         LET metadata == Metadata(df, datetime_is_numeric)
         IN \E ctor \in CtorOutcomes(api_key # None, ANTHROPIC_AVAILABLE, api_key) :
              \E remote \in RemoteOutcomesOf(ctor, Summary(metadata)) :
                 LET a == Analysis(metadata, api_key # None, api_key, ctor, remote)
                     v == Validate(a.result, pydantic_strict)
                 IN /\ dataframes_cache' = df
                    /\ analysis' = a
                    /\ upload' = [called |-> TRUE,
                                  metadata |-> metadata,
                                  suggestions |-> IF a.raised THEN <<>> ELSE v.suggestions,
                                  status |-> IF a.raised \/ v.raised THEN 500 ELSE 200]
    /\ UNCHANGED <<ANTHROPIC_AVAILABLE, pydantic_strict, chart>>

\* main.py lines 252-268: an error in the answer is raised as HTTPException
\* 400 inside the try, whose except clause answers 500
EndpointStatus(chart_data) == IF chart_data.has_error THEN 500 ELSE 200

\* get_chart_data_endpoint on a suggestion of the upload, sent back as it
\* was received (a parameter that is None is left out of the dict, and reads
\* as None again); a file_id that is not in the cache is answered with 404
\* before anything is computed
GetChartDataEndpoint ==
    /\ dataframes_cache # NoDf
    /\ upload.called
    /\ upload.status = 200
    /\ ~chart.called
    /\ \E k \in 1..Len(upload.suggestions), empty_mean_raises \in BOOLEAN :
          LET request == upload.suggestions[k]
              chart_data == get_chart_data(dataframes_cache, request.chart_type,
                                           request.parameters, empty_mean_raises)
          IN chart' = [called |-> TRUE,
                       chart_type |-> request.chart_type,
                       parameters |-> request.parameters,
                       result |-> chart_data,
                       status |-> EndpointStatus(chart_data)]
    /\ UNCHANGED <<ANTHROPIC_AVAILABLE, pydantic_strict, dataframes_cache, analysis, upload>>

\* ---- the requests of the aggregation specification -----------------------
Params(x, y, c, v, g, a) ==
    [x_axis |-> x, y_axis |-> y, category |-> c, value |-> v, group_by |-> g, aggregate |-> a]

\* a column of the frame, a name no frame has, or no value
ColumnArgs == {None, "a", "b", "count"}

AggregateArgs == {None, "sum", "mean", "count", "median"}

\* Every value of the fields a chart type reads; the fields it never reads
\* are unset, or all set at once. 'line' takes the branch of 'bar' (line 79)
\* and is requested with the default and one named aggregate.
Requests ==
    {[chart_type |-> "bar", parameters |-> Params(x, y, None, None, g, a)] :
        x \in ColumnArgs \cup {""}, y \in ColumnArgs, g \in ColumnArgs, a \in AggregateArgs}
    \cup {[chart_type |-> "line", parameters |-> Params(x, y, None, None, g, a)] :
        x \in ColumnArgs, y \in ColumnArgs, g \in ColumnArgs, a \in {None, "mean"}}
    \cup {[chart_type |-> "pie", parameters |-> Params(None, None, c, v, g, a)] :
        c \in ColumnArgs, v \in ColumnArgs, g \in ColumnArgs, a \in AggregateArgs}
    \cup {[chart_type |-> "scatter", parameters |-> Params(x, y, None, None, None, None)] :
        x \in ColumnArgs, y \in ColumnArgs}
    \cup {[chart_type |-> k, parameters |-> Params(x, x, x, x, g, None)] :
        k \in {"bar", "pie", "scatter", "heatmap", ""}, x \in {None, "a"}, g \in {None, "b"}}

NoAnalysis == [called |-> FALSE]

NoUpload == [called |-> FALSE]

NoChart == [called |-> FALSE]

\* get_chart_data(df, chart_type, parameters) on the stored frame. The call
\* keeps no state, so a second call reaches only what a first call reaches:
\* one call per behaviour reaches every state.
GetChartData(requests) ==
    /\ dataframes_cache # NoDf
    /\ ~chart.called
    /\ \E req \in requests, empty_mean_raises \in BOOLEAN :
          chart' = [called |-> TRUE,
                    chart_type |-> req.chart_type,
                    parameters |-> req.parameters,
                    result |-> get_chart_data(dataframes_cache, req.chart_type, req.parameters,
                                              empty_mean_raises)]
    /\ UNCHANGED <<ANTHROPIC_AVAILABLE, pydantic_strict, dataframes_cache, analysis, upload>>

\* The aggregation on its own: any small frame is stored, any request is made.
InitAgg ==
    /\ ANTHROPIC_AVAILABLE = FALSE
    /\ pydantic_strict = FALSE
    /\ dataframes_cache \in SmallDatasets
    /\ analysis = NoAnalysis
    /\ upload = NoUpload
    /\ chart = NoChart

NextAgg == GetChartData(Requests)

SpecAgg == InitAgg /\ [][NextAgg]_vars

\* The row caps: frames of as many rows as a cap and one more, of integer,
\* float and text columns and of a column of numerals whose last row is a word.
CapPatterns == {"int64_1", "float64_1", "object_1", "object_5"}

LargeDatasets ==
    {Frame(pats, n) : pats \in SeqsUpTo(CapPatterns, MaxCols),
                      n \in {FallbackCap, FallbackCap + 1, BarLineCap, BarLineCap + 1,
                             ScatterCap, ScatterCap + 1}}

CapRequests ==
    {req \in Requests : req.parameters.group_by = None /\ req.parameters.aggregate = None}

InitCaps ==
    /\ ANTHROPIC_AVAILABLE = FALSE
    /\ pydantic_strict = FALSE
    /\ dataframes_cache \in LargeDatasets
    /\ analysis = NoAnalysis
    /\ upload = NoUpload
    /\ chart = NoChart

NextCaps == GetChartData(CapRequests)

SpecCaps == InitCaps /\ [][NextCaps]_vars
\* The suggestion engine on its own: any profile, any call.
InitSuggest ==
    /\ ANTHROPIC_AVAILABLE \in BOOLEAN
    /\ pydantic_strict = FALSE
    /\ dataframes_cache \in UploadDatasets
    /\ analysis = NoAnalysis
    /\ upload = NoUpload
    /\ chart = NoChart

NextSuggest == AnalyzeDataframe

SpecSuggest == InitSuggest /\ [][NextSuggest]_vars

\* The service: nothing stored, then an upload.
Init ==
    /\ ANTHROPIC_AVAILABLE \in BOOLEAN
    /\ pydantic_strict \in BOOLEAN
    /\ dataframes_cache = NoDf
    /\ analysis = NoAnalysis
    /\ upload = NoUpload
    /\ chart = NoChart

Next == UploadFile \/ GetChartDataEndpoint

Spec == Init /\ [][Next]_vars

\* ---- what the claims speak of ---------------------------------------------
Called == chart.called

Df == dataframes_cache

Result == chart.result

Req == chart.parameters

\* the fields a chart type requires are given
BarLineRequest == Called /\ chart.chart_type \in {"bar", "line"} /\ Truthy(Req.x_axis) /\ Truthy(Req.y_axis)

PieRequest == Called /\ chart.chart_type = "pie" /\ Truthy(Req.category) /\ Truthy(Req.value)

ScatterRequest == Called /\ chart.chart_type = "scatter" /\ Truthy(Req.x_axis) /\ Truthy(Req.y_axis)

ValidRequest == BarLineRequest \/ PieRequest \/ ScatterRequest

\* a column the request makes the code read, that the frame does not have
ReadsUnknownColumn ==
    \/ BarLineRequest /\ Truthy(Req.group_by)
         /\ (~HasColumn(Df, Req.group_by) \/ ~HasColumn(Df, Req.y_axis))
    \/ BarLineRequest /\ ~Truthy(Req.group_by) /\ len(Df) > 0
         /\ (~HasColumn(Df, Req.x_axis) \/ ~HasColumn(Df, Req.y_axis))
    \/ PieRequest /\ Truthy(Req.group_by)
         /\ (~HasColumn(Df, Req.group_by) \/ ~HasColumn(Df, Req.value))
    \/ PieRequest /\ ~Truthy(Req.group_by)
         /\ (~HasColumn(Df, Req.category) \/ ~HasColumn(Df, Req.value))
    \/ ScatterRequest /\ len(Df) > 0
         /\ (~HasColumn(Df, Req.x_axis) \/ ~HasColumn(Df, Req.y_axis))

\* a row-by-row request whose numeric column holds text or dates
ReadsNonNumericCell ==
    \/ BarLineRequest /\ ~Truthy(Req.group_by) /\ len(Df) > 0
         /\ HasColumn(Df, Req.x_axis) /\ HasColumn(Df, Req.y_axis)
         /\ dtype(Df, Req.y_axis) = "datetime64[ns]"
    \/ ScatterRequest /\ len(Df) > 0
         /\ HasColumn(Df, Req.x_axis) /\ HasColumn(Df, Req.y_axis)
         /\ \E i \in 0..(len(Df) - 1) : Cell(Df, i, Req.y_axis).t = "str"
                                        /\ Cell(Df, i, Req.y_axis).s \in {<<"N">>, <<"S">>}

\* C1: get_chart_data never raises to its caller, whatever the frame, the
\* chart type (known or not) and the parameters; a failure inside (an unknown
\* column, a cell that is no number, a reduction the dtype does not support)
\* comes back as a result with no data and an error message.
C1_NeverRaises ==
    Called =>
        /\ ~Result.raised
        /\ (ReadsUnknownColumn \/ ReadsNonNumericCell) =>
              /\ Result.has_error
              /\ Result.error # ""
              /\ Result.data = <<>>
        /\ Result.has_error => Result.data = <<>> /\ Result.error # ""

C1_Witness ==
    /\ Called
    /\ ReadsNonNumericCell
    /\ Result.has_error
    /\ Result.data = <<>>
    /\ chart.chart_type = "scatter"

\* C8: without grouping, bar and line return the first min(rows, 100) rows,
\* scatter the first min(rows, 500) rows, and the fallback on the first
\* numeric column the first min(rows, 50) rows, in the frame's row order;
\* never more points than the cap.
C8_RowCaps ==
    Called =>
        /\ (BarLineRequest /\ ~Truthy(Req.group_by)) =>
              /\ Len(Result.data) <= BarLineCap
              /\ ~Result.has_error =>
                    /\ Len(Result.data) = Min(len(Df), BarLineCap)
                    /\ \A k \in 1..Len(Result.data) :
                          /\ Result.data[k].name = Str(iloc(Df, k - 1, Req.x_axis))
                          /\ Result.data[k].value = Float(Cell(Df, k - 1, Req.y_axis)).v
        /\ ScatterRequest =>
              /\ Len(Result.data) <= ScatterCap
              /\ ~Result.has_error =>
                    /\ Len(Result.data) = Min(len(Df), ScatterCap)
                    /\ \A k \in 1..Len(Result.data) :
                          /\ Result.data[k].x = Float(Cell(Df, k - 1, Req.x_axis)).v
                          /\ Result.data[k].y = Float(Cell(Df, k - 1, Req.y_axis)).v
        /\ (~ValidRequest /\ len(Df) > 0 /\ Len(select_dtypes_number(Df)) >= 2) =>
              /\ Len(Result.data) = Min(len(Df), FallbackCap)
              /\ \A k \in 1..Len(Result.data) :
                    /\ Result.data[k].name = IntToText(k - 1)
                    /\ Result.data[k].value = Float(Cell(Df, k - 1, select_dtypes_number(Df)[1])).v

\* a frame longer than every cap, answered with exactly 100 points
C8_Witness ==
    /\ Called
    /\ BarLineRequest
    /\ ~Truthy(Req.group_by)
    /\ len(Df) > ScatterCap
    /\ ~Result.has_error
    /\ Len(Result.data) = BarLineCap

\* ---- grouping, as the claims state it -------------------------------------
\* the request groups: the column it groups by, the column it reduces, how
Grouped == (BarLineRequest /\ Truthy(Req.group_by)) \/ PieRequest

GroupColumn == IF Truthy(Req.group_by) THEN Req.group_by ELSE Req.category

TargetColumn == IF chart.chart_type = "pie" THEN Req.value ELSE Req.y_axis

How ==
    LET a == Req.aggregate IN
    IF chart.chart_type = "pie" /\ ~Truthy(Req.group_by) THEN "sum"
    ELSE IF a = "mean" THEN "mean"
    ELSE IF a = "count" /\ chart.chart_type # "pie" THEN "count"
    ELSE "sum"

\* the distinct keys: the cells of the group column that are not missing
KeySet == {c \in {Cell(Df, i, GroupColumn) : i \in 0..(len(Df) - 1)} : ~isna(c)}

RowsOf(key) == {i \in 0..(len(Df) - 1) : Cell(Df, i, GroupColumn) = key}

RECURSIVE SumOver(_)
SumOver(rows) ==
    IF rows = {} THEN 0
    ELSE LET i == CHOOSE r \in rows : TRUE
         IN Cell(Df, i, TargetColumn).n + SumOver(rows \ {i})

\* the rows of a key whose target cell is not missing
ValuedRowsOf(key) == {i \in RowsOf(key) : ~isna(Cell(Df, i, TargetColumn))}

\* the reduction of a numeric target over the rows of one key; missing
\* values take no part in it
Reduction(key) ==
    CASE How = "sum" -> Num(SumOver(ValuedRowsOf(key)))
      [] How = "count" -> Num(Cardinality(ValuedRowsOf(key)))
      [] How = "mean" -> IF ValuedRowsOf(key) = {} THEN NaN
                         ELSE Frac(SumOver(ValuedRowsOf(key)), Cardinality(ValuedRowsOf(key)))

\* the keys in the order their first rows appear
FirstSeenKeys ==
    LET first(key) == CHOOSE i \in RowsOf(key) : \A j \in RowsOf(key) : i <= j
        before(a, b) == first(a) < first(b)
    IN CHOOSE q \in [1..Cardinality(KeySet) -> KeySet] :
          /\ \A a, b \in 1..Cardinality(KeySet) : a < b => before(q[a], q[b])

\* the keys in ascending order
AscendingKeys ==
    CHOOSE q \in [1..Cardinality(KeySet) -> KeySet] :
       \A a, b \in 1..Cardinality(KeySet) : a < b => CellLess(q[a], q[b])

\* one point per key of keys, in that order, labels alike, numeric targets reduced
OnePointPerKey(keys) ==
    /\ Len(Result.data) = Len(keys)
    /\ Result.labels = Labels([k \in 1..Len(keys) |-> Str(keys[k])])
    /\ \A k \in 1..Len(keys) :
          /\ Result.data[k].name = Str(keys[k])
          /\ (IsNumberDtype(dtype(Df, TargetColumn)) \/ How = "count") =>
                Result.data[k].value = Reduction(keys[k])

GroupedAnswer == Called /\ Grouped /\ ~Result.has_error

\* the answer is the fallback's: the first min(rows, 50) rows, named by row
\* index, valued with the first numeric column's cell, labels alike
FallbackAnswer ==
    /\ ~Result.has_error
    /\ Len(select_dtypes_number(Df)) >= 1
    /\ Len(Result.data) = Min(len(Df), FallbackCap)
    /\ Result.labels = Labels([k \in 1..Len(Result.data) |-> IntToText(k - 1)])
    /\ \A k \in 1..Len(Result.data) :
          /\ DOMAIN Result.data[k] = {"name", "value"}
          /\ Result.data[k].name = IntToText(k - 1)
          /\ Result.data[k].value = Float(Cell(Df, k - 1, select_dtypes_number(Df)[1])).v

\* a grouping that found no key in a frame the fallback applies to
NoKeyFallsBack == KeySet = {} /\ len(Df) > 0 /\ Len(select_dtypes_number(Df)) >= 2

\* C9 as stated: one point per distinct group key, valued with the reduction
\* of the target over the key's rows, in the order the keys first appear.
C9_FirstSeenOrder == GroupedAnswer => OnePointPerKey(FirstSeenKeys)

\* C9: one point per distinct group key that is not missing, valued with
\* the reduction of the target over the key's rows, in ascending order of the
\* keys (the order groupby sorts them in), which is the first-seen order only
\* when the keys first appear in ascending order; when every key is missing
\* and the frame has two numeric columns, the fallback's points instead.
C9_SortedGroupOrder ==
    GroupedAnswer =>
        IF NoKeyFallsBack THEN FallbackAnswer ELSE OnePointPerKey(AscendingKeys)

\* keys first seen in descending order, answered in ascending order
C9_Witness ==
    /\ GroupedAnswer
    /\ Cardinality(KeySet) = 2
    /\ FirstSeenKeys # AscendingKeys
    /\ How = "mean"
    /\ GroupColumn # TargetColumn
    /\ IsNumberDtype(dtype(Df, TargetColumn))
    /\ Len(Result.data) = 2
    /\ len(Df) = 3

\* C10: a pie of value v by category c, no group_by, default aggregate, has
\* the points and labels of the bar of y_axis v grouped by c with aggregate
\* sum, on the same frame, for every column c and numeric column v.
PieByCategoryRequest ==
    /\ Called
    /\ chart.chart_type = "pie"
    /\ HasColumn(Df, Req.category)
    /\ HasColumn(Df, Req.value)
    /\ IsNumberDtype(dtype(Df, Req.value))
    /\ Req.group_by = None
    /\ Req.aggregate = None

EquivalentBar ==
    get_chart_data(Df, "bar", Params(Req.category, Req.value, None, None, Req.category, "sum"), TRUE)

C10_PieEqualsGroupedBar ==
    PieByCategoryRequest =>
        /\ Result.data = EquivalentBar.data
        /\ Result.labels = EquivalentBar.labels
        /\ Result.has_error = EquivalentBar.has_error

\* Scenario E's shape: two categories, one of them with two rows
C10_Witness ==
    /\ PieByCategoryRequest
    /\ ~Result.has_error
    /\ Len(Result.data) = 2
    /\ len(Df) = 3
    /\ Req.category # Req.value
\* ---- the suggestion engine, as the claims state it ------------------------
Analyzed == analysis.called

Suggested == analysis.result

RuleBased == analyze_dataframe_mock(analysis.schema)

\* the reply came back as text
Replied == Analyzed /\ analysis.use_claude /\ analysis.remote.outcome = "text"

Parsed == json_loads(StripFences(analysis.remote.text))

\* the model-backed generator was invoked and could not complete
Degraded ==
    /\ Analyzed
    /\ analysis.use_claude
    /\ \/ ~ANTHROPIC_AVAILABLE
       \/ analysis.api_key \in {None, ""}
       \/ analysis.ctor \in {"TypeError", "Exception"}
       \/ analysis.remote.outcome \in {"error", "no content"}
       \/ Replied /\ ~Parsed.ok

\* C2: when the model-backed generator is invoked and the client library is
\* unavailable, or no credential is configured, or the client cannot be
\* constructed, or the remote call fails, or the reply does not parse after
\* fence-stripping, it returns what the rule-based generator returns for the
\* same profile.
C2_DegradesToRuleBased == Degraded => Suggested = RuleBased

\* a reply that does not parse, answered with the rule-based suggestions
C2_Witness ==
    /\ Degraded
    /\ Replied
    /\ ~Parsed.ok
    /\ Len(analysis.remote.text) > 1
    /\ Len(Suggested) = MaxSuggestions

\* the reply parsed to a value that is no list
NonListReply == Replied /\ Parsed.ok /\ Parsed.v.j # "list"

RuleBasedCall == Analyzed /\ ~analysis.use_claude

ColumnKeys == {"x_axis", "y_axis", "category", "value", "group_by"}

InProfile(col) == \E k \in 1..Len(analysis.schema.columns) : analysis.schema.columns[k] = col

\* C4: every x_axis, y_axis, category, value and group_by of every
\* rule-based suggestion names a column of the profile's column list.
C4_ColumnsInProfile ==
    RuleBasedCall =>
        \A k \in 1..Len(Suggested) : \A key \in ColumnKeys :
            Suggested[k].parameters[key].j = "str" => InProfile(Suggested[k].parameters[key].s)

\* the partitions of the stored frame, by dtype
NumericColumns == SelectSeq(columns(Df), LAMBDA col : IsNumberDtype(dtype(Df, col)))

CategoricalColumns == SelectSeq(columns(Df), LAMBDA col : dtype(Df, col) = "object")

Rung(chart_type, group_by, category) ==
    [chart_type |-> chart_type, group_by |-> group_by, category |-> category]

\* the rule ladder of the specification, rung by rung
Ladder ==
    LET num == NumericColumns
        cat == CategoricalColumns
    IN (IF Len(cat) >= 1 /\ Len(num) >= 1 THEN <<Rung("bar", cat[1], None)>> ELSE <<>>)
       \o (IF Len(num) >= 2 THEN <<Rung("line", None, None)>> ELSE <<>>)
       \o (IF Len(cat) >= 1 /\ Len(num) >= 1 THEN <<Rung("pie", cat[1], cat[1])>> ELSE <<>>)
       \o (IF Len(num) >= 2 THEN <<Rung("scatter", None, None)>> ELSE <<>>)
       \o (IF Len(num) >= 1 THEN <<Rung("bar", None, None)>> ELSE <<>>)
       \o (IF Len(cat) >= 1 /\ Len(num) = 0 THEN <<Rung("bar", cat[1], None)>> ELSE <<>>)
       \o (IF Len(cat) >= 2 /\ Len(num) = 0 THEN <<Rung("bar", cat[1], cat[2])>> ELSE <<>>)
       \o (IF Len(cat) >= 1 /\ Len(num) = 0 THEN <<Rung("pie", cat[1], cat[1])>> ELSE <<>>)

TextOrNone(fv) == IF fv.j = "str" THEN fv.s ELSE None

RungOf(suggestion) ==
    Rung(suggestion.chart_type.s, TextOrNone(suggestion.parameters.group_by),
         TextOrNone(suggestion.parameters.category))

\* C5: the rule-based generator returns at most 5 suggestions, in the order
\* of the rule ladder (bar by category, line, pie, scatter, bar by index,
\* then the categorical-only rules), each rung present once when its
\* condition on the profile holds and absent otherwise; the list is a
\* function of the profile alone.
C5_CappedLadder ==
    RuleBasedCall =>
        /\ Len(Suggested) <= 5
        /\ Len(Suggested) = Min(Len(Ladder), 5)
        /\ \A k \in 1..Len(Suggested) : RungOf(Suggested[k]) = Ladder[k]

\* a profile with a categorical and two numeric columns: all five rungs
C5_Witness ==
    /\ RuleBasedCall
    /\ Len(CategoricalColumns) >= 1
    /\ Len(NumericColumns) >= 2
    /\ Len(Suggested) = 5

\* ---- the validator, as the claims state it --------------------------------
Uploaded == upload.called

\* the upload got as far as the validator
Validating == Uploaded /\ ~analysis.raised

Raw == analysis.result

Validated == upload.suggestions

\* an entry with the four fields as text and a dict of text parameters
WellFormed(e) ==
    /\ e.j = "obj"
    /\ e.title.j = "str" /\ e.chart_type.j = "str" /\ e.insight.j = "str"
    /\ e.parameters.j = "obj"
    /\ \A key \in ParamKeys : e.parameters[key].j \in {"str", "absent", "null"}

Survives(e) == ValidateOne(e, pydantic_strict).ok

Survivors == SelectSeq(Raw, Survives)

\* C6: the validator completes without raising on any list of loosely
\* structured entries; it returns at most as many suggestions as entries, the
\* survivors in their input order; whether an entry survives depends on that
\* entry alone: a malformed entry (a non-dict among them) is dropped, a
\* well-formed one is kept, whatever the other entries are.
C6_ValidatorTotal ==
    Validating =>
        /\ upload.status = 200
        /\ Len(Validated) <= Len(Raw)
        /\ Len(Validated) = Len(Survivors)
        /\ \A k \in 1..Len(Validated) : Validated[k] = ValidateOne(Survivors[k], pydantic_strict).v
        /\ \A k \in 1..Len(Raw) : WellFormed(Raw[k]) => Survives(Raw[k])
        /\ \A k \in 1..Len(Raw) : Raw[k].j # "obj" => ~Survives(Raw[k])

\* a malformed entry before a well-formed one: only the second comes out
C6_Witness ==
    /\ Uploaded
    /\ Replied
    /\ Len(Raw) = 2
    /\ Raw[1].j # "obj"
    /\ WellFormed(Raw[2])
    /\ Len(Validated) = 1
    /\ Validated[1].title = Raw[2].title.s

ChartKinds == {"bar", "line", "pie", "scatter"}

\* C7: every suggestion the validator returns has a chart_type among bar,
\* line, pie and scatter; an entry with any other chart_type is not returned.
C7_KnownChartKinds ==
    Uploaded => \A k \in 1..Len(Validated) : Validated[k].chart_type \in ChartKinds

\* ---- the profile, as the claims state it ---------------------------------
Profile == upload.metadata

\* the columns describe() has statistics for
DescribedColumns == {Profile.summary_stats[k].col : k \in 1..Len(Profile.summary_stats)}

\* C11 as stated: the upload's profile is built for every frame, and its
\* summary statistics are the empty mapping whenever the frame has no rows or
\* no numeric column, a frame of categorical columns with rows among them.
C11_NoStatsWithoutNumbers ==
    Uploaded =>
        /\ Profile.columns = columns(Df)
        /\ Profile.shape = <<len(Df), NCols(Df)>>
        /\ (len(Df) = 0 \/ Len(select_dtypes_number(Df)) = 0) => Profile.summary_stats = <<>>

\* ---- row-by-row requests, as the claims state them ------------------------
\* bar or line without grouping, or scatter, over columns the frame has
RowByRow ==
    /\ (BarLineRequest /\ ~Truthy(Req.group_by)) \/ ScatterRequest
    /\ HasColumn(Df, Req.x_axis)
    /\ HasColumn(Df, Req.y_axis)

\* the columns whose cells are made numbers
CoercedColumns == IF chart.chart_type = "scatter" THEN {Req.x_axis, Req.y_axis} ELSE {Req.y_axis}

RowCap == IF chart.chart_type = "scatter" THEN ScatterCap ELSE BarLineCap

\* the rows among the first n with a cell that is no number
BadRows(n) ==
    {i \in 0..(n - 1) : \E col \in CoercedColumns : ~Float(iloc(Df, i, col)).ok}

\* C12 as stated: a cell that cannot be made a number in any row of the
\* frame makes a row-by-row request end in an error with no data.
C12_AnyRowAborts ==
    (RowByRow /\ BadRows(len(Df)) # {}) => (Result.has_error /\ Result.data = <<>>)

\* C12: a cell that cannot be made a number in any of the rows the request
\* reads (the first min(rows, cap)) makes it end in an error with no data,
\* never in the points of the other rows; with no such cell the answer has a
\* point for every row read. A row beyond the cap is never read.
C12_ReadRowAborts ==
    RowByRow =>
        /\ BadRows(Min(len(Df), RowCap)) # {} => (Result.has_error /\ Result.data = <<>>)
        /\ BadRows(Min(len(Df), RowCap)) = {} =>
              (~Result.has_error /\ Len(Result.data) = Min(len(Df), RowCap))

\* a hundred rows of numerals that end in a word: no point comes back
C12_Witness ==
    /\ RowByRow
    /\ chart.chart_type = "bar"
    /\ len(Df) = BarLineCap
    /\ BadRows(len(Df)) = {BarLineCap - 1}
    /\ Result.has_error
    /\ Result.data = <<>>

\* ---- the fallback, as the claims state it ---------------------------------
\* the dispatch made no point and raised nothing: the request lacks what its
\* chart type requires (or names no known chart type), or it groups by a
\* column whose cells are all missing
NothingProduced ==
    \/ ~ValidRequest
    \/ Grouped /\ HasColumn(Df, GroupColumn) /\ KeySet = {} /\ ~Result.has_error

\* C13 as stated: on a frame with rows, a request that lacks what its chart
\* type requires is answered with the fallback's points when the frame has
\* two numeric columns and with no data and no error otherwise; a request
\* that has what its chart type requires is never answered with the
\* fallback's points.
C13_FallbackOnlyOnWrongParameters ==
    (Called /\ len(Df) > 0) =>
        /\ (~ValidRequest /\ Len(select_dtypes_number(Df)) >= 2) => FallbackAnswer
        /\ (~ValidRequest /\ Len(select_dtypes_number(Df)) < 2) =>
              (Result.data = <<>> /\ ~Result.has_error)
        /\ ValidRequest => ~FallbackAnswer

\* C13: on a frame with rows, whenever the dispatch made no point and raised
\* nothing (the request lacks what its chart type requires, or it groups by a
\* column with no key that is not missing) the answer is the fallback's points
\* when the frame has two numeric columns, and no data and no error
\* otherwise; any other request is never answered with the fallback's points.
C13_FallbackWhenNothingProduced ==
    (Called /\ len(Df) > 0) =>
        /\ (NothingProduced /\ Len(select_dtypes_number(Df)) >= 2) => FallbackAnswer
        /\ (NothingProduced /\ Len(select_dtypes_number(Df)) < 2) =>
              (Result.data = <<>> /\ ~Result.has_error)
        /\ ~NothingProduced => ~FallbackAnswer

\* a bar grouped by a column of missing values, answered by row index
C13_Witness ==
    /\ Called
    /\ BarLineRequest
    /\ Truthy(Req.group_by)
    /\ HasColumn(Df, Req.group_by)
    /\ HasColumn(Df, Req.y_axis)
    /\ KeySet = {}
    /\ len(Df) > 0
    /\ FallbackAnswer

\* ---- suggestions sent back, as the claims state it ------------------------
\* a suggestion of the rule-based generator was sent to the endpoint
RuleBasedRoundTrip == Called /\ Uploaded /\ ~analysis.use_claude /\ len(Df) > 0

\* C14 as stated: every suggestion of the rule-based generator for a frame
\* with rows, passed as it is to get_chart_data on the same frame, is
\* answered without an error.
C14_RoundTripWithoutError == RuleBasedRoundTrip => ~Result.has_error

\* ---- the shape of an answer ------------------------------------------------
\* C15: an answer with an error has no data; an answer with labels has as
\* many labels as points, each label the name of its point; the {x, y}
\* points of a scatter come with no labels.
C15_ConsistentAnswer ==
    Called =>
        /\ Result.has_error => Result.data = <<>>
        /\ Result.labels.some =>
              /\ Len(Result.labels.list) = Len(Result.data)
              /\ \A k \in 1..Len(Result.data) :
                    /\ "name" \in DOMAIN Result.data[k]
                    /\ Result.labels.list[k] = Result.data[k].name
        /\ (\E k \in 1..Len(Result.data) : "x" \in DOMAIN Result.data[k]) => ~Result.labels.some

\* three rows in two groups, two labels
C15_Witness ==
    /\ Called
    /\ Grouped
    /\ ~Result.has_error
    /\ Result.labels.some
    /\ Len(Result.data) = 2
    /\ len(Df) = 3
    /\ Result.labels.list[2] = Result.data[2].name
====
